---- MODULE Spec2Model ----
(***************************************************************************)
(* Model of the flight motion model of src/game.js (class GameScene).      *)
(*                                                                         *)
(* The code computes in IEEE doubles; the model computes in fixed point:   *)
(*   time      in 1/TimeScale seconds          (1/60 s = 10 units)         *)
(*   velocity  in 1/VelScale pixels per second                             *)
(*   position  in 1/PosScale pixels, PosScale = VelScale * TimeScale,      *)
(*             so that velocity * time is a position without rounding.     *)
(* The factors 0.99, 0.95, 0.1, 0.2 and 1.0 are hundredths (Frac = 100)    *)
(* and a product by one of them is rounded down.                           *)
(***************************************************************************)
EXTENDS Integers, FiniteSets

\* ---- representation ------------------------------------------------------
TimeScale == 600
VelScale == 30
PosScale == VelScale * TimeScale
Frac == 100
MsPerSecond == 1000

\* ---- PHYSICS (src/game.js 2-14) ------------------------------------------
GRAVITY == 800
GLIDE_GRAVITY == 600
THRUST == -500
THRUST_FORWARD_BOOST == 20
GLIDE_FORWARD_MAINTAIN == 99
FALL_DECELERATION == 95
BASE_FORWARD_SPEED == 70
MAX_FORWARD_SPEED == 1700
MAX_VELOCITY_Y == 600
FALL_THRESHOLD == 300

\* ---- MOVEMENT (src/game.js 17-22) ----------------------------------------
MIN_X == 200
MAX_X == 800
CAMERA_LERP == 10
WORLD_SCROLL_FACTOR == 100
CAMERA_TARGET_FACTOR == 20

\* ---- BACKGROUND, GAME (src/game.js 25-38) --------------------------------
CONSTANT_SCROLL_SPEED == 130
HEIGHT == 1080
DISTANCE_UNIT == 10

\* ---- bounds --------------------------------------------------------------
\* Frames played in one behaviour.
MaxFrames == 3
\* Frame times the host hands to update, in milliseconds: a zero delta, a
\* frame shorter than 1/60 s, and a long frame that the clamp cuts.
Deltas == {0, 10, 500}
\* The pointers whose events are modelled, among the mouse and the three
\* touch points the scene adds (this.input.addPointer(3)).
Pointers == {"mouse", "touch1"}
\* Frames played from a state taken in the middle of a game.
MidFrames == 2

VARIABLES
    scene,       \* the GameScene instance with its bird, camera and background
    entry,       \* history: the scene as the last call found it
    twin,        \* a second GameScene, run on the same frame times
    down,        \* host: the pointers currently held down
    frameDelta,  \* host: the delta (ms) of the frame being processed
    frames,      \* frames completed
    pc           \* "world": between frames; "scene": the physics world has
                 \* stepped and update() is due

vars == <<scene, entry, twin, down, frameDelta, frames, pc>>

Max(a, b) == IF a >= b THEN a ELSE b
Min(a, b) == IF a <= b THEN a ELSE b

\* Phaser.Math.Clamp(value, min, max) = Math.max(min, Math.min(max, value))
Clamp(value, lo, hi) == Max(lo, Min(hi, value))

\* Phaser.Math.Linear(p0, p1, t) = (p1 - p0) * t + p0, t in hundredths
Linear(p0, p1, t) == ((p1 - p0) * t) \div Frac + p0

\* delta / 1000: milliseconds to seconds
DeltaTime(delta) == (delta * TimeScale) \div MsPerSecond

\* Math.min(deltaTime, 1/60)
ClampedDeltaTime(delta) == Min(DeltaTime(delta), TimeScale \div 60)

\* ---- constructor() and create() ------------------------------------------
NewScene ==
    [ isThrusting      |-> FALSE,
      distance         |-> 0,
      backgroundOffset |-> 0,
      forwardVelocity  |-> BASE_FORWARD_SPEED * VelScale,
      cameraTargetX    |-> 0,
      worldOffset      |-> 0,
      gravityY         |-> GRAVITY,
      birdX            |-> MIN_X * PosScale,
      birdY            |-> (HEIGHT * PosScale) \div 2,
      velocityX        |-> 0,
      velocityY        |-> 0,
      scrollX          |-> 0,
      tilePositionX    |-> 0 ]

\* ---- the steps of update() -----------------------------------------------
\* applyPhysics without its else branch: gliding keeps the gravity it finds.
applyPhysics_KeepGravity(s, deltaTime) ==
    IF s.isThrusting
    THEN [s EXCEPT !.velocityY = THRUST * VelScale, !.gravityY = GRAVITY]
    ELSE s

applyPhysics(s, deltaTime) ==
    IF s.isThrusting
    THEN [s EXCEPT !.velocityY = THRUST * VelScale, !.gravityY = GRAVITY]
    ELSE [s EXCEPT !.gravityY = GLIDE_GRAVITY]

\* updateForwardVelocity without the clamp.
updateForwardVelocity_NoClamp(s, deltaTime) ==
    LET fallingBadly == s.velocityY > FALL_THRESHOLD * VelScale
        moved == IF s.isThrusting
                 THEN s.forwardVelocity
                      + (THRUST_FORWARD_BOOST * VelScale * deltaTime) \div TimeScale
                 ELSE IF fallingBadly
                      THEN (s.forwardVelocity * FALL_DECELERATION) \div Frac
                      ELSE (s.forwardVelocity * GLIDE_FORWARD_MAINTAIN) \div Frac
    IN  [s EXCEPT !.forwardVelocity = moved, !.velocityX = moved]

\* updateForwardVelocity with >= for > in the falling-badly test.
updateForwardVelocity_AtThreshold(s, deltaTime) ==
    LET fallingBadly == s.velocityY >= FALL_THRESHOLD * VelScale
        moved == IF s.isThrusting
                 THEN s.forwardVelocity
                      + (THRUST_FORWARD_BOOST * VelScale * deltaTime) \div TimeScale
                 ELSE IF fallingBadly
                      THEN (s.forwardVelocity * FALL_DECELERATION) \div Frac
                      ELSE (s.forwardVelocity * GLIDE_FORWARD_MAINTAIN) \div Frac
        clamped == Clamp(moved, BASE_FORWARD_SPEED * VelScale,
                                MAX_FORWARD_SPEED * VelScale)
    IN  [s EXCEPT !.forwardVelocity = clamped, !.velocityX = clamped]

updateForwardVelocity(s, deltaTime) ==
    LET fallingBadly == s.velocityY > FALL_THRESHOLD * VelScale
        moved == IF s.isThrusting
                 THEN s.forwardVelocity
                      + (THRUST_FORWARD_BOOST * VelScale * deltaTime) \div TimeScale
                 ELSE IF fallingBadly
                      THEN (s.forwardVelocity * FALL_DECELERATION) \div Frac
                      ELSE (s.forwardVelocity * GLIDE_FORWARD_MAINTAIN) \div Frac
        clamped == Clamp(moved, BASE_FORWARD_SPEED * VelScale,
                                MAX_FORWARD_SPEED * VelScale)
    IN  [s EXCEPT !.forwardVelocity = clamped, !.velocityX = clamped]

\* constrainBirdPosition without the test against the right edge.
constrainBirdPosition_NoRightEdge(s) ==
    LET h == IF s.birdX < MIN_X * PosScale
             THEN [s EXCEPT !.birdX = MIN_X * PosScale,
                            !.velocityX = Max(0, s.velocityX)]
             ELSE s
    IN  IF h.birdY < 0
        THEN [h EXCEPT !.birdY = 0, !.velocityY = Max(0, h.velocityY)]
        ELSE IF h.birdY > HEIGHT * PosScale
             THEN [h EXCEPT !.birdY = HEIGHT * PosScale,
                            !.velocityY = Min(0, h.velocityY)]
             ELSE h

\* constrainBirdPosition stopping the body at an edge, whatever its velocity.
constrainBirdPosition_Stop(s) ==
    LET h == IF s.birdX < MIN_X * PosScale
             THEN [s EXCEPT !.birdX = MIN_X * PosScale, !.velocityX = 0]
             ELSE IF s.birdX > MAX_X * PosScale
                  THEN [s EXCEPT !.birdX = MAX_X * PosScale, !.velocityX = 0]
                  ELSE s
    IN  IF h.birdY < 0
        THEN [h EXCEPT !.birdY = 0, !.velocityY = 0]
        ELSE IF h.birdY > HEIGHT * PosScale
             THEN [h EXCEPT !.birdY = HEIGHT * PosScale, !.velocityY = 0]
             ELSE h

constrainBirdPosition(s) ==
    LET h == IF s.birdX < MIN_X * PosScale
             THEN [s EXCEPT !.birdX = MIN_X * PosScale,
                            !.velocityX = Max(0, s.velocityX)]
             ELSE IF s.birdX > MAX_X * PosScale
                  THEN [s EXCEPT !.birdX = MAX_X * PosScale,
                                 !.velocityX = Min(0, s.velocityX)]
                  ELSE s
    IN  IF h.birdY < 0
        THEN [h EXCEPT !.birdY = 0, !.velocityY = Max(0, h.velocityY)]
        ELSE IF h.birdY > HEIGHT * PosScale
             THEN [h EXCEPT !.birdY = HEIGHT * PosScale,
                            !.velocityY = Min(0, h.velocityY)]
             ELSE h

updateCamera(s, deltaTime) ==
    LET target == (s.worldOffset * CAMERA_TARGET_FACTOR) \div Frac
    IN  [s EXCEPT !.cameraTargetX = target,
                  !.scrollX = Linear(s.scrollX, target, CAMERA_LERP)]

\* updateWorldPosition with the sign of the step reversed.
updateWorldPosition_Backward(s, deltaTime) ==
    LET offset == s.worldOffset
                  - (s.forwardVelocity * deltaTime * WORLD_SCROLL_FACTOR) \div Frac
    IN  [s EXCEPT !.worldOffset = offset,
                  !.distance = offset \div (DISTANCE_UNIT * PosScale)]

updateWorldPosition(s, deltaTime) ==
    LET offset == s.worldOffset
                  + (s.forwardVelocity * deltaTime * WORLD_SCROLL_FACTOR) \div Frac
    IN  [s EXCEPT !.worldOffset = offset,
                  !.distance = offset \div (DISTANCE_UNIT * PosScale)]

\* The background advanced at the bird's speed.
advanceBackground_BySpeed(s, deltaTime) ==
    [s EXCEPT !.backgroundOffset = s.backgroundOffset + s.forwardVelocity * deltaTime]

advanceBackground(s, deltaTime) ==
    [s EXCEPT !.backgroundOffset =
                  s.backgroundOffset + CONSTANT_SCROLL_SPEED * VelScale * deltaTime]

updateBackgroundScrolling(s) ==
    [s EXCEPT !.tilePositionX = s.backgroundOffset]

\* update with the world advanced before the forward velocity is updated.
update_WorldFirst(s, delta) ==
    LET dt == ClampedDeltaTime(delta)
        s1 == applyPhysics(s, dt)
        s2 == updateWorldPosition(s1, dt)
        s3 == updateForwardVelocity(s2, dt)
        s4 == constrainBirdPosition(s3)
        s5 == updateCamera(s4, dt)
        s6 == advanceBackground(s5, dt)
    IN  updateBackgroundScrolling(s6)

\* update with the camera updated after the world has advanced.
update_CameraLast(s, delta) ==
    LET dt == ClampedDeltaTime(delta)
        s1 == applyPhysics(s, dt)
        s2 == updateForwardVelocity(s1, dt)
        s3 == constrainBirdPosition(s2)
        s4 == updateWorldPosition(s3, dt)
        s5 == updateCamera(s4, dt)
        s6 == advanceBackground(s5, dt)
    IN  updateBackgroundScrolling(s6)

update(s, delta) ==
    LET dt == ClampedDeltaTime(delta)
        s1 == applyPhysics(s, dt)
        s2 == updateForwardVelocity(s1, dt)
        s3 == constrainBirdPosition(s2)
        s4 == updateCamera(s3, dt)
        s5 == updateWorldPosition(s4, dt)
        s6 == advanceBackground(s5, dt)
    IN  updateBackgroundScrolling(s6)

\* ---- the host's physics world --------------------------------------------
\* The body is integrated under the world's gravity, its velocity held
\* within the maximum velocity set in createBird, before update() runs.
\* A long frame is integrated in one step.  The drag set in createBird is
\* left out: update() sets velocityX anew every frame, and the drag only
\* changes which values of velocityY are met, which the states of a game in
\* progress below cover.
worldStep(s, delta) ==
    LET dt == DeltaTime(delta)
        vy == Clamp(s.velocityY + (s.gravityY * VelScale * dt) \div TimeScale,
                    -(MAX_VELOCITY_Y * VelScale), MAX_VELOCITY_Y * VelScale)
        vx == Clamp(s.velocityX,
                    -(MAX_FORWARD_SPEED * VelScale), MAX_FORWARD_SPEED * VelScale)
    IN  [s EXCEPT !.velocityX = vx, !.velocityY = vy,
                  !.birdX = s.birdX + vx * dt,
                  !.birdY = s.birdY + vy * dt]

\* ---- actions -------------------------------------------------------------
Init ==
    /\ scene = NewScene
    /\ entry = NewScene
    /\ twin = NewScene
    /\ down = {}
    /\ frameDelta = 0
    /\ frames = 0
    /\ pc = "world"

\* this.input.on('pointerdown', ...)
PointerDown(p) ==
    /\ pc = "world"
    /\ p \notin down
    /\ down' = down \cup {p}
    /\ scene' = [scene EXCEPT !.isThrusting = TRUE]
    /\ UNCHANGED <<entry, twin, frameDelta, frames, pc>>

\* this.input.on('pointerup', ...)
PointerUp(p) ==
    /\ pc = "world"
    /\ p \in down
    /\ down' = down \ {p}
    /\ scene' = [scene EXCEPT !.isThrusting = FALSE]
    /\ UNCHANGED <<entry, twin, frameDelta, frames, pc>>

\* A frame starts: the host steps the physics world with the frame's delta.
WorldStep(delta) ==
    /\ pc = "world"
    /\ frames < MaxFrames
    /\ frameDelta' = delta
    /\ scene' = worldStep(scene, delta)
    /\ pc' = "scene"
    /\ UNCHANGED <<entry, twin, down, frames>>

\* update(_, delta)
Update ==
    /\ pc = "scene"
    /\ entry' = scene
    /\ scene' = update(scene, frameDelta)
    /\ frames' = frames + 1
    /\ pc' = "world"
    /\ UNCHANGED <<twin, down, frameDelta>>

Next ==
    \/ \E p \in Pointers : PointerDown(p)
    \/ \E p \in Pointers : PointerUp(p)
    \/ \E delta \in Deltas : WorldStep(delta)
    \/ Update

Spec == Init /\ [][Next]_vars

\* ---- a game in progress --------------------------------------------------
\* States between two frames of a game that has run for a while: speeds and
\* positions within their ranges and at their ends, velocityY around
\* FALL_THRESHOLD, the world offset just under and at 500 pixels, the camera
\* behind its target.  Every combination is taken, a superset of what a game
\* reaches, and the new scene is kept among them.
MidForwardVelocities == {BASE_FORWARD_SPEED, 100, MAX_FORWARD_SPEED}
MidVelocitiesY == {THRUST, 50, 294, FALL_THRESHOLD, 350}
MidXs == {MIN_X, MAX_X}
MidYs == {0, HEIGHT \div 2, HEIGHT}
MidWorldOffsets == {500 * PosScale - 1, 500 * PosScale}

MidScene(fv, vy, x, y, wo) ==
    [ isThrusting      |-> FALSE,
      distance         |-> wo \div (DISTANCE_UNIT * PosScale),
      backgroundOffset |-> 1000 * PosScale,
      forwardVelocity  |-> fv * VelScale,
      cameraTargetX    |-> 99 * PosScale,
      worldOffset      |-> wo,
      gravityY         |-> GLIDE_GRAVITY,
      birdX            |-> x * PosScale,
      birdY            |-> y * PosScale,
      velocityX        |-> fv * VelScale,
      velocityY        |-> vy * VelScale,
      scrollX          |-> 90 * PosScale,
      tilePositionX    |-> 1000 * PosScale ]

MidInit ==
    /\ \/ scene = NewScene
       \/ \E fv \in MidForwardVelocities, vy \in MidVelocitiesY,
             x \in MidXs, y \in MidYs, wo \in MidWorldOffsets :
              scene = MidScene(fv, vy, x, y, wo)
    /\ entry = scene
    /\ twin = NewScene
    /\ down = {}
    /\ frameDelta = 0
    /\ frames = MaxFrames - MidFrames
    /\ pc = "world"

SpecMid == MidInit /\ [][Next]_vars

\* ---- constrainBirdPosition on its own ------------------------------------
\* The positions and velocities a body can be handed over with, in pixels
\* and pixels per second.
BodyXs == {MIN_X - 10, MIN_X, 500, MAX_X, MAX_X + 10}
BodyYs == {-10, 0, 540, HEIGHT, HEIGHT + 10}
BodyVelocities == {-100, 0, 100}

ConstrainInit ==
    /\ \E x \in BodyXs, y \in BodyYs, vx \in BodyVelocities, vy \in BodyVelocities :
           scene = [NewScene EXCEPT !.birdX = x * PosScale,
                                    !.birdY = y * PosScale,
                                    !.velocityX = vx * VelScale,
                                    !.velocityY = vy * VelScale]
    /\ entry = scene
    /\ twin = NewScene
    /\ down = {}
    /\ frameDelta = 0
    /\ frames = 0
    /\ pc = "constrain"

Constrain ==
    /\ pc = "constrain"
    /\ entry' = scene
    /\ scene' = constrainBirdPosition(scene)
    /\ pc' = "constrained"
    /\ UNCHANGED <<twin, down, frameDelta, frames>>

SpecConstrain == ConstrainInit /\ [][Constrain]_vars

\* ---- two games on the same frame times -----------------------------------
TwinPointerDown ==
    /\ pc = "world"
    /\ ~twin.isThrusting
    /\ twin' = [twin EXCEPT !.isThrusting = TRUE]
    /\ UNCHANGED <<scene, entry, down, frameDelta, frames, pc>>

TwinPointerUp ==
    /\ pc = "world"
    /\ twin.isThrusting
    /\ twin' = [twin EXCEPT !.isThrusting = FALSE]
    /\ UNCHANGED <<scene, entry, down, frameDelta, frames, pc>>

PairWorldStep(delta) ==
    /\ pc = "world"
    /\ frames < MaxFrames
    /\ frameDelta' = delta
    /\ scene' = worldStep(scene, delta)
    /\ twin' = worldStep(twin, delta)
    /\ pc' = "scene"
    /\ UNCHANGED <<entry, down, frames>>

PairUpdate ==
    /\ pc = "scene"
    /\ entry' = scene
    /\ scene' = update(scene, frameDelta)
    /\ twin' = update(twin, frameDelta)
    /\ frames' = frames + 1
    /\ pc' = "world"
    /\ UNCHANGED <<down, frameDelta>>

PairNext ==
    \/ \E p \in Pointers : PointerDown(p)
    \/ \E p \in Pointers : PointerUp(p)
    \/ TwinPointerDown
    \/ TwinPointerUp
    \/ \E delta \in Deltas : PairWorldStep(delta)
    \/ PairUpdate

SpecPair == Init /\ [][PairNext]_vars

\* ==== properties ==========================================================
\* A frame of the game in progress has been played.
MidPlayed == frames > MaxFrames - MidFrames

\* C1: between frames, that is once constrainBirdPosition has run, the bird
\* is within MIN_X..MAX_X horizontally and 0..HEIGHT vertically.
C1_PositionWithinBounds ==
    pc = "world" =>
        /\ 200 * PosScale <= scene.birdX /\ scene.birdX <= 800 * PosScale
        /\ 0 <= scene.birdY /\ scene.birdY <= 1080 * PosScale

\* update() found the bird past the right edge and above the top and has
\* put it back on both.
C1_Witness ==
    /\ pc = "world" /\ MidPlayed
    /\ entry.birdX > 800 * PosScale /\ scene.birdX = 800 * PosScale
    /\ entry.birdY < 0 /\ scene.birdY = 0

\* C2: forwardVelocity is within BASE_FORWARD_SPEED..MAX_FORWARD_SPEED in
\* every state, and so is the horizontal velocity updateForwardVelocity
\* hands to the body in the frame being processed.
C2_ForwardVelocityWithinBounds ==
    /\ 70 * VelScale <= scene.forwardVelocity
    /\ scene.forwardVelocity <= 1700 * VelScale
    /\ pc = "scene" =>
           LET dt == ClampedDeltaTime(frameDelta)
               handed == updateForwardVelocity(applyPhysics(scene, dt), dt).velocityX
           IN  70 * VelScale <= handed /\ handed <= 1700 * VelScale

\* A thrusting frame at the maximum speed: the boost was cut by the clamp.
C2_Witness ==
    /\ pc = "world" /\ MidPlayed
    /\ entry.isThrusting /\ ClampedDeltaTime(frameDelta) > 0
    /\ entry.forwardVelocity = 1700 * VelScale
    /\ scene.forwardVelocity = 1700 * VelScale

\* C3: worldOffset and backgroundOffset start at 0 and no step decreases
\* either of them.
C3_OffsetsNonDecreasing ==
    /\ scene.worldOffset = 0 /\ scene.backgroundOffset = 0
    /\ [][/\ scene'.worldOffset >= scene.worldOffset
          /\ scene'.backgroundOffset >= scene.backgroundOffset]_vars

\* A frame has advanced both offsets.
C3_Witness ==
    /\ pc = "world" /\ frames > 0
    /\ scene.worldOffset > entry.worldOffset
    /\ scene.backgroundOffset > entry.backgroundOffset

\* C4: isThrusting is true if and only if at least one pointer is down.
C4_ThrustingIffHeld == scene.isThrusting <=> (down # {})

\* C5: two games played on the same frame times, whatever each one's input,
\* have the same backgroundOffset and the same tile offset, and a frame
\* advances backgroundOffset by CONSTANT_SCROLL_SPEED * (clamped delta).
C5_BackgroundIndependent ==
    /\ scene.backgroundOffset = twin.backgroundOffset
    /\ scene.tilePositionX = twin.tilePositionX
    /\ pc = "world" =>
           /\ scene.tilePositionX = scene.backgroundOffset
           /\ scene.backgroundOffset =
                  entry.backgroundOffset
                  + 130 * VelScale * ClampedDeltaTime(frameDelta)

\* The two games differ in speed, distance flown and height while the
\* background has scrolled.
C5_Witness ==
    /\ pc = "world" /\ frames > 1
    /\ scene.forwardVelocity # twin.forwardVelocity
    /\ scene.worldOffset # twin.worldOffset
    /\ scene.birdY # twin.birdY
    /\ scene.velocityY # twin.velocityY
    /\ scene.backgroundOffset > 0

\* C6: the distance is floor(worldOffset / 10), and a frame advances
\* worldOffset by forwardVelocity * delta * WORLD_SCROLL_FACTOR with the
\* forwardVelocity this frame has just set.
C6_DistanceFromWorldOffset ==
    /\ scene.distance = scene.worldOffset \div (10 * PosScale)
    /\ pc = "world" =>
           scene.worldOffset =
               entry.worldOffset
               + scene.forwardVelocity * ClampedDeltaTime(frameDelta)

\* A frame that changed the forward velocity took worldOffset to 500 pixels
\* or over, and the distance shown is 50.
C6_Witness ==
    /\ pc = "world" /\ MidPlayed
    /\ scene.forwardVelocity # entry.forwardVelocity
    /\ entry.worldOffset < 500 * PosScale
    /\ scene.worldOffset >= 500 * PosScale
    /\ scene.distance = 50

\* C7: a frame sets forwardVelocity to clamp(g(forwardVelocity), 70, 1700),
\* g adding 20 * delta when thrusting, multiplying by 0.95 when not
\* thrusting and velocityY > 300, and by 0.99 otherwise.
C7_ForwardVelocityUpdate ==
    pc = "world" /\ MidPlayed =>
        LET dt == ClampedDeltaTime(frameDelta)
            fv == entry.forwardVelocity
            g  == IF entry.isThrusting
                  THEN fv + (20 * VelScale * dt) \div TimeScale
                  ELSE IF entry.velocityY > 300 * VelScale
                       THEN (fv * 95) \div 100
                       ELSE (fv * 99) \div 100
        IN  scene.forwardVelocity =
                IF g < 70 * VelScale THEN 70 * VelScale
                ELSE IF g > 1700 * VelScale THEN 1700 * VelScale
                ELSE g

\* A frame not thrusting with velocityY exactly at the threshold took the
\* forward velocity from 100 to 99.
C7_Witness ==
    /\ pc = "world" /\ MidPlayed
    /\ ~entry.isThrusting
    /\ entry.velocityY = 300 * VelScale
    /\ ClampedDeltaTime(frameDelta) > 0
    /\ entry.forwardVelocity = 100 * VelScale
    /\ scene.forwardVelocity = 99 * VelScale

\* C8: applyPhysics sets velocityY to THRUST and the gravity to GRAVITY
\* when thrusting, and the gravity to GLIDE_GRAVITY, leaving velocityY, when
\* not; after a frame the gravity is the one of the isThrusting it read.
C8_ModeReselected ==
    /\ pc = "scene" =>
           LET s1 == applyPhysics(scene, ClampedDeltaTime(frameDelta))
           IN  IF scene.isThrusting
               THEN s1.velocityY = -500 * VelScale /\ s1.gravityY = 800
               ELSE s1.velocityY = scene.velocityY /\ s1.gravityY = 600
    /\ pc = "world" /\ frames > 0 =>
           scene.gravityY = IF entry.isThrusting THEN 800 ELSE 600

\* A thrusting frame played under the glide gravity of the frame before.
C8_Witness ==
    /\ pc = "world" /\ frames > 1
    /\ entry.isThrusting /\ entry.gravityY = 600
    /\ scene.gravityY = 800 /\ scene.velocityY = -500 * VelScale

\* C9: constrainBirdPosition, on each axis: past the low edge the position
\* is the edge and the velocity max(0, v); past the high edge the position is
\* the edge and the velocity min(0, v); otherwise both are unchanged.
C9_VelocityClampedWithPosition ==
    pc = "constrained" =>
        /\ IF entry.birdX < 200 * PosScale
           THEN /\ scene.birdX = 200 * PosScale
                /\ scene.velocityX = (IF entry.velocityX > 0 THEN entry.velocityX ELSE 0)
           ELSE IF entry.birdX > 800 * PosScale
                THEN /\ scene.birdX = 800 * PosScale
                     /\ scene.velocityX = (IF entry.velocityX < 0 THEN entry.velocityX ELSE 0)
                ELSE scene.birdX = entry.birdX /\ scene.velocityX = entry.velocityX
        /\ IF entry.birdY < 0
           THEN /\ scene.birdY = 0
                /\ scene.velocityY = (IF entry.velocityY > 0 THEN entry.velocityY ELSE 0)
           ELSE IF entry.birdY > 1080 * PosScale
                THEN /\ scene.birdY = 1080 * PosScale
                     /\ scene.velocityY = (IF entry.velocityY < 0 THEN entry.velocityY ELSE 0)
                ELSE scene.birdY = entry.birdY /\ scene.velocityY = entry.velocityY

\* The body was at x = 190 moving right and below the bottom moving down:
\* it is at x = 200 still moving right, and at the bottom, stopped.
C9_Witness ==
    /\ pc = "constrained"
    /\ entry.birdX = 190 * PosScale /\ entry.velocityX > 0
    /\ scene.birdX = 200 * PosScale /\ scene.velocityX = entry.velocityX
    /\ entry.birdY > 1080 * PosScale /\ entry.velocityY > 0
    /\ scene.birdY = 1080 * PosScale /\ scene.velocityY = 0

\* C10: 0 <= cameraScrollX <= cameraTargetX <= 0.2 * worldOffset in every
\* state; a frame sets cameraTargetX to 0.2 * worldOffset as the frame found
\* it and moves cameraScrollX a tenth of the way to it, never backwards.
C10_CameraLags ==
    /\ 0 <= scene.scrollX
    /\ scene.scrollX <= scene.cameraTargetX
    /\ scene.cameraTargetX * 100 <= 20 * scene.worldOffset
    /\ pc = "world" /\ frames > 0 =>
           /\ scene.cameraTargetX = (entry.worldOffset * 20) \div 100
           /\ scene.scrollX =
                  entry.scrollX + ((scene.cameraTargetX - entry.scrollX) * 10) \div 100
           /\ scene.scrollX >= entry.scrollX

\* The camera has moved and is strictly behind its target, itself strictly
\* behind a fifth of the distance flown.
C10_Witness ==
    /\ pc = "world" /\ frames > 1
    /\ scene.scrollX > entry.scrollX /\ entry.scrollX > 0
    /\ scene.scrollX < scene.cameraTargetX
    /\ scene.cameraTargetX * 100 < 20 * scene.worldOffset

====
